---- MODULE Spec2Model ----
(***************************************************************************)
(* A model of actix-session-sqlite: the SQLite-backed session store        *)
(* (src/src/lib.rs) and the cookie-to-sqlite migration shim                *)
(* (src/src/gradual_transition_shim.rs).                                   *)
(*                                                                         *)
(* Time is a discrete clock `now` counted in ticks; a session key carries  *)
(* a millisecond timestamp, which is coarser than the clock.               *)
(***************************************************************************)
EXTENDS Integers, Sequences, FiniteSets, TLC

\* ------------------------------------------------------------------ bounds
\* The clock runs from 0 to MaxTime ticks.
MaxTime == 2
\* random() is drawn from 0..MaxRandom.
MaxRandom == 1
\* A ttl is a whole number of ticks in 0..MaxTtl.
MaxTtl == 1
\* The sessions table holds at most MaxRows rows.
MaxRows == 2

\* Clock ticks per millisecond: Utc::now() is finer than the "t" field of a
\* key, which serde's ts_milliseconds cuts to whole milliseconds.
TicksPerMilli == 3

Millis(t) == t \div TicksPerMilli

\* ------------------------------------------------------- session state data
\* SessionState = HashMap<String, String>: a function from some names to values.
Names == {"a", "b"}
Values == {"x"}
NameOrder == <<"a", "b">>

SessionStates == UNION {[D -> Values] : D \in SUBSET Names}

\* The states callers pass in, and the states of the sessions the legacy store
\* holds when the shim is built.
StateInputs == {m \in SessionStates : "a" \in DOMAIN m}
LegacyStates == {m \in SessionStates : DOMAIN m = {"b"}}

\* The subsequence of NameOrder whose names are in D (BTreeMap order).
RECURSIVE SortedNames(_, _)
SortedNames(D, i) ==
    IF i > Len(NameOrder) THEN <<>>
    ELSE (IF NameOrder[i] \in D THEN <<NameOrder[i]>> ELSE <<>>)
         \o SortedNames(D, i + 1)

\* serde_json::to_value(session_state): a JSON object, its entries in key order.
ToValue(m) ==
    LET ks == SortedNames(DOMAIN m, 1)
    IN  [i \in 1..Len(ks) |-> [n |-> ks[i], num |-> FALSE, i |-> 0, s |-> m[ks[i]]]]

\* serde_json::from_value::<SessionState>(data): every entry must be a string.
FromValueOk(v) == \A i \in 1..Len(v) : ~v[i].num

FromValue(v) ==
    [k \in {v[i].n : i \in 1..Len(v)} |->
        LET i == CHOOSE j \in 1..Len(v) : v[j].n = k /\ \A l \in (j+1)..Len(v) : v[l].n # k
        IN  v[i].s]

\* ------------------------------------------------------------- key strings
\* A key string is JSON text: an object or an array of scalar fields, or text
\* that is no JSON at all.  A field is [n: name, num: is a number, i, s].
NumField(name, v) == [n |-> name, num |-> TRUE, i |-> v, s |-> ""]
StrField(name, v) == [n |-> name, num |-> FALSE, i |-> 0, s |-> v]

JsonObject(fields) == [fmt |-> "object", f |-> fields]
JsonArray(fields) == [fmt |-> "array", f |-> fields]
NotJson == [fmt |-> "text", f |-> <<>>]

\* struct Uuid { timestamp (as "t", in milliseconds), random (as "r") }
Uuid(t, r) == [t |-> t, r |-> r]

\* impl From<Uuid> for String: serde_json::to_string(&val)
UuidToString(u) == JsonObject(<<NumField("t", u.t), NumField("r", u.r)>>)

FieldsNamed(raw, name) == {i \in 1..Len(raw.f) : raw.f[i].n = name}

\* impl TryFrom<&str> for Uuid: serde_json::from_str(value).  An object needs
\* exactly one "t" and one "r", both integers, "r" unsigned; other fields are
\* ignored.  An array needs exactly the two numbers, in the order t, r.
UuidParses(raw) ==
    \/ /\ raw.fmt = "object"
       /\ Cardinality(FieldsNamed(raw, "t")) = 1
       /\ Cardinality(FieldsNamed(raw, "r")) = 1
       /\ \A i \in FieldsNamed(raw, "t") \cup FieldsNamed(raw, "r") : raw.f[i].num
       /\ \A i \in FieldsNamed(raw, "r") : raw.f[i].i >= 0
    \/ /\ raw.fmt = "array"
       /\ Len(raw.f) = 2
       /\ raw.f[1].num /\ raw.f[2].num
       /\ raw.f[2].i >= 0

UuidTryFrom(raw) ==
    IF raw.fmt = "object"
    THEN Uuid(raw.f[CHOOSE i \in FieldsNamed(raw, "t") : TRUE].i,
              raw.f[CHOOSE i \in FieldsNamed(raw, "r") : TRUE].i)
    ELSE Uuid(raw.f[1].i, raw.f[2].i)

\* A key written with the struct's field names instead of "t" and "r".
UuidToSessionKeyLongNames(u) ==
    JsonObject(<<NumField("timestamp", u.t), NumField("random", u.r)>>)

\* impl From<Uuid> for SessionKey: the key handed back to the caller.
UuidToSessionKey(u) == UuidToString(u)

\* ------------------------------------------------------------- the clock
\* convert_duration(ttl): asserts the ttl is not negative and keeps its length.
ConvertDuration(ttl) == ttl

\* ------------------------------------------------- the sessions table (SQL)
\* A row of table sessions: DbSessionRow { id, expires, created, data }; the id
\* column holds the key's text.
DbSessionRow(id, created, expires, data) ==
    [id |-> id, created |-> created, expires |-> expires, data |-> data]

\* "where id=$1"
RowsWithId(tbl, id) == {row \in tbl : row.id = id}

\* The id column is the table's primary key: an insert of a taken id fails.
PrimaryKeyFree(tbl, id) == RowsWithId(tbl, id) = {}

\* The test with the comparison turned round.
ExpiredFlipped(row, t) == row.expires > t

\* The test taking a row that expires at this very instant as expired.
ExpiredNonStrict(row, t) == row.expires <= t

\* load's test of a fetched row: x.expires < Utc::now().naive_utc()
Expired(row, t) == row.expires < t

\* The outcome of one store call: the table after it, and what the caller gets.
\* res is "ok", "err", "some" (load found data) or "none" (load found nothing).
NoKey == [fmt |-> "nokey", f |-> <<>>]
NoData == <<>>
Outcome(tbl, res, rkey, rdata) ==
    [tbl |-> tbl, res |-> res, rkey |-> rkey, rdata |-> rdata]

\* SqliteSessionStore::load at clock reading t.
StoreLoad(tbl, raw, t) ==
    IF ~UuidParses(raw) THEN Outcome(tbl, "err", NoKey, NoData)
    ELSE LET key == UuidToString(UuidTryFrom(raw))
             rows == RowsWithId(tbl, key)
         IN  IF rows = {} THEN Outcome(tbl, "none", NoKey, NoData)
             ELSE LET row == CHOOSE x \in rows : TRUE
                  IN  IF Expired(row, t)
                      THEN Outcome(tbl \ rows, "none", NoKey, NoData)
                      ELSE IF FromValueOk(row.data)
                           THEN Outcome(tbl, "some", NoKey, FromValue(row.data))
                           ELSE Outcome(tbl, "err", NoKey, NoData)

\* "insert or replace": an insert that overwrites the row of a taken id.
InsertReturningReplaces(tbl, row) ==
    Outcome({x \in tbl : x.id # row.id} \cup {row}, "ok", row.id, NoData)

\* "insert into sessions (id, created, expires, data) values ... returning id"
InsertReturning(tbl, row) ==
    IF PrimaryKeyFree(tbl, row.id)
    THEN Outcome(tbl \cup {row}, "ok", row.id, NoData)
    ELSE Outcome(tbl, "err", NoKey, NoData)

\* save that answers with the new key even when the insert failed.
StoreSaveIgnoresInsertError(tbl, m, ttl, r, t1, t2) ==
    LET new_key == Uuid(Millis(t1), r)
        ins == InsertReturning(tbl,
                   DbSessionRow(UuidToString(new_key), t2,
                                t2 + ConvertDuration(ttl), ToValue(m)))
    IN  Outcome(ins.tbl, "ok", UuidToSessionKey(new_key), NoData)

\* save that gives every session a ttl of at least one tick.
StoreSaveMinTtl(tbl, m, ttl, r, t1, t2) ==
    LET ins == InsertReturning(tbl,
                   DbSessionRow(UuidToString(Uuid(Millis(t1), r)), t2,
                                t2 + (IF ttl = 0 THEN 1 ELSE ConvertDuration(ttl)),
                                ToValue(m)))
    IN  IF ins.res = "ok"
        THEN Outcome(ins.tbl, "ok", UuidToSessionKey(UuidTryFrom(ins.rkey)), NoData)
        ELSE ins

\* SqliteSessionStore::save: Uuid::new() reads the clock at t1 and draws r, then
\* `now` is read at t2.
StoreSave(tbl, m, ttl, r, t1, t2) ==
    LET value == ToValue(m)
        new_key == Uuid(Millis(t1), r)
        expires == t2 + ConvertDuration(ttl)
        ins == InsertReturning(tbl,
                   DbSessionRow(UuidToString(new_key), t2, expires, value))
    IN  IF ins.res = "ok"
        THEN Outcome(ins.tbl, "ok", UuidToSessionKey(UuidTryFrom(ins.rkey)), NoData)
        ELSE ins

\* update that inserts the row when no row has the id.
StoreUpdateUpsert(tbl, raw, m, ttl, t) ==
    IF ~UuidParses(raw) THEN Outcome(tbl, "err", NoKey, NoData)
    ELSE LET key == UuidToString(UuidTryFrom(raw))
             written == DbSessionRow(key, t, t + ConvertDuration(ttl), ToValue(m))
         IN  Outcome({row \in tbl : row.id # key}
                         \cup {IF RowsWithId(tbl, key) = {} THEN written
                               ELSE [written EXCEPT !.created =
                                        (CHOOSE row \in RowsWithId(tbl, key) : TRUE).created]},
                     "ok", raw, NoData)

\* SqliteSessionStore::update: "update sessions set data=$2, expires=$3 where id=$1"
StoreUpdate(tbl, raw, m, ttl, t) ==
    IF ~UuidParses(raw) THEN Outcome(tbl, "err", NoKey, NoData)
    ELSE LET key == UuidToString(UuidTryFrom(raw))
             value == ToValue(m)
             expires == t + ConvertDuration(ttl)
         IN  Outcome({IF row.id = key
                      THEN [row EXCEPT !.data = value, !.expires = expires]
                      ELSE row : row \in tbl},
                     "ok", raw, NoData)

\* update_ttl without its where clause.
StoreUpdateTtlAllRows(tbl, raw, ttl, t) ==
    IF ~UuidParses(raw) THEN Outcome(tbl, "err", NoKey, NoData)
    ELSE Outcome({[row EXCEPT !.expires = t + ConvertDuration(ttl)] : row \in tbl},
                 "ok", NoKey, NoData)

\* update_ttl that takes the ttl itself as the new expires, not now + ttl.
StoreUpdateTtlFromEpoch(tbl, raw, ttl, t) ==
    IF ~UuidParses(raw) THEN Outcome(tbl, "err", NoKey, NoData)
    ELSE Outcome({IF row.id = UuidToString(UuidTryFrom(raw))
                  THEN [row EXCEPT !.expires = ConvertDuration(ttl)]
                  ELSE row : row \in tbl},
                 "ok", NoKey, NoData)

\* SqliteSessionStore::update_ttl: "update sessions set expires=$2 where id=$1"
StoreUpdateTtl(tbl, raw, ttl, t) ==
    IF ~UuidParses(raw) THEN Outcome(tbl, "err", NoKey, NoData)
    ELSE LET key == UuidToString(UuidTryFrom(raw))
             expires == t + ConvertDuration(ttl)
         IN  Outcome({IF row.id = key THEN [row EXCEPT !.expires = expires]
                      ELSE row : row \in tbl},
                     "ok", NoKey, NoData)

\* delete without its where clause.
StoreDeleteAll(tbl, raw) ==
    IF ~UuidParses(raw) THEN Outcome(tbl, "err", NoKey, NoData)
    ELSE Outcome({}, "ok", NoKey, NoData)

\* SqliteSessionStore::delete: "delete from sessions where id=$1"
StoreDelete(tbl, raw) ==
    IF ~UuidParses(raw) THEN Outcome(tbl, "err", NoKey, NoData)
    ELSE LET key == UuidToString(UuidTryFrom(raw))
         IN  Outcome(tbl \ RowsWithId(tbl, key), "ok", NoKey, NoData)

\* --------------------------------------------------------- clean_database
\* SQL values carry a storage class; strftime yields TEXT, unixepoch() INTEGER.
MillisPerSecond == 1000
Seconds(t) == t \div (MillisPerSecond * TicksPerMilli)

SqlText(v) == [ty |-> "text", v |-> v]
SqlInteger(v) == [ty |-> "integer", v |-> v]

\* strftime('%s', expires) and unixepoch()
Strftime_s(t) == SqlText(Seconds(t))
Unixepoch(t) == SqlInteger(Seconds(t))

\* SQLite's "<" on two expressions without column affinity: values of one
\* storage class compare by value, and an INTEGER sorts before any TEXT.
SqlLess(x, y) ==
    IF x.ty = y.ty THEN x.v < y.v
    ELSE x.ty = "integer" /\ y.ty = "text"

\* "delete from sessions where strftime('%s', expires) < unixepoch()"
SweepMatches(row, t) == SqlLess(Strftime_s(row.expires), Unixepoch(t))

\* SqliteSessionStore::clean_database at clock reading t, in one transaction:
\* the delete, then "select changes() from sessions" read with fetch_one, which
\* yields one row per row left in the table and fails when there is none (the
\* transaction is then dropped, which rolls the delete back).  count is the
\* number returned on success.
CleanDatabase(tbl, t) ==
    LET gone == {row \in tbl : SweepMatches(row, t)}
        left == tbl \ gone
    IN  IF left = {}
        THEN [tbl |-> tbl, res |-> "err", count |-> 0]
        ELSE [tbl |-> left, res |-> "ok", count |-> Cardinality(gone)]

\* --------------------------------------------------------- the legacy store
\* The secondary store of the shim is a CookieSessionStore: a session's key is
\* the JSON text of its state, and load decodes the key.  A legacy record is
\* [key, data]; the shim only ever loads from the store.
CookieKey(m) == JsonObject(ToValue(m))

CookieDecodes(raw) == raw.fmt = "object" /\ FromValueOk(raw.f)

LegacyRecord(m) == [key |-> CookieKey(m), data |-> FromValue(CookieKey(m).f)]

\* secondary.load(key): the record's data, None when the store holds no such
\* record, an error when the key does not decode.
SecondaryLoad(sec, raw) ==
    IF ~CookieDecodes(raw) THEN Outcome({}, "err", NoKey, NoData)
    ELSE IF \E rec \in sec : rec.key = raw
         THEN Outcome({}, "some", NoKey, (CHOOSE rec \in sec : rec.key = raw).data)
         ELSE Outcome({}, "none", NoKey, NoData)

\* ---------------------------------------------------------------- the shim
\* StoreSessionKey::try_from(session_key.as_ref()).is_ok(): the key parses
\* under the primary store's key codec.
StoreSessionKeyParses(raw) == UuidParses(raw)

\* load that moves a legacy session into the primary store when it reads it.
ShimLoadMigrates(tbl, sec, raw, t) ==
    IF StoreSessionKeyParses(raw) THEN StoreLoad(tbl, raw, t)
    ELSE LET got == SecondaryLoad(sec, raw)
         IN  IF got.res = "some"
             THEN [got EXCEPT !.tbl = StoreSave(tbl, got.rdata, 1, 0, t, t).tbl]
             ELSE [got EXCEPT !.tbl = tbl]

\* CookieToSqliteSessionStoreShim::load
ShimLoad(tbl, sec, raw, t) ==
    IF StoreSessionKeyParses(raw) THEN StoreLoad(tbl, raw, t)
    ELSE [SecondaryLoad(sec, raw) EXCEPT !.tbl = tbl]

\* CookieToSqliteSessionStoreShim::save
ShimSave(tbl, m, ttl, r, t1, t2) == StoreSave(tbl, m, ttl, r, t1, t2)

\* update that carries the legacy store's state over instead of the caller's.
ShimUpdateKeepsOld(tbl, sec, raw, m, ttl, r, t1, t2) ==
    IF StoreSessionKeyParses(raw) THEN StoreUpdate(tbl, raw, m, ttl, t1)
    ELSE IF SecondaryLoad(sec, raw).res # "some"
         THEN Outcome(tbl, "err", NoKey, NoData)
         ELSE StoreSave(tbl, SecondaryLoad(sec, raw).rdata, ttl, r, t1, t2)

\* update without the check that the legacy record exists.
ShimUpdateFabricates(tbl, sec, raw, m, ttl, r, t1, t2) ==
    IF StoreSessionKeyParses(raw) THEN StoreUpdate(tbl, raw, m, ttl, t1)
    ELSE StoreSave(tbl, m, ttl, r, t1, t2)

\* CookieToSqliteSessionStoreShim::update: a key of the primary store is
\* updated there; any other key must load from the secondary store, and the
\* new state is then saved as a new session of the primary store.
ShimUpdate(tbl, sec, raw, m, ttl, r, t1, t2) ==
    IF StoreSessionKeyParses(raw) THEN StoreUpdate(tbl, raw, m, ttl, t1)
    ELSE IF SecondaryLoad(sec, raw).res # "some"
         THEN Outcome(tbl, "err", NoKey, NoData)
         ELSE StoreSave(tbl, m, ttl, r, t1, t2)

\* CookieToSqliteSessionStoreShim::update_ttl
ShimUpdateTtl(tbl, raw, ttl, t) ==
    IF StoreSessionKeyParses(raw) THEN StoreUpdateTtl(tbl, raw, ttl, t)
    ELSE Outcome(tbl, "ok", NoKey, NoData)

\* delete that hands every key to the primary store.
ShimDeleteAlwaysPrimary(tbl, raw) == StoreDelete(tbl, raw)

\* CookieToSqliteSessionStoreShim::delete
ShimDelete(tbl, raw) ==
    IF StoreSessionKeyParses(raw) THEN StoreDelete(tbl, raw)
    ELSE Outcome(tbl, "ok", NoKey, NoData)

\* ------------------------------------------------------------------ inputs
Ttls == 0..MaxTtl
Randoms == 0..MaxRandom

\* Keys of the primary store as save writes them.
IssuedKeys == {UuidToString(Uuid(t, r)) : t \in 0..Millis(MaxTime), r \in Randoms}

\* A key text that save never writes but that parses to the Uuid (0, 0): the
\* fields in the other order.
AliasKeys == {JsonObject(<<NumField("r", 0), NumField("t", 0)>>)}

\* Keys of the legacy store, and strings no store decodes.
LegacyKeys == {CookieKey(m) : m \in SessionStates \ StateInputs}
BrokenKeys == {NotJson}

KeyInputs == IssuedKeys \cup AliasKeys \cup LegacyKeys \cup BrokenKeys

\* ------------------------------------------------------------------- state
VARIABLES
    now,        \* the clock, in ticks
    sessions,   \* the rows of table sessions of the primary store
    secondary,  \* the records of the legacy store
    last,       \* the last call: its operation, arguments and result
    savedRun,   \* keys returned by the saves made since the last other call
    track,      \* the latest saved session, until it is written to: its key and
                \* data, the time of the save, the end of its ttl, and the key
                \* the call was given (from: the legacy key of a migration)
    migrated,   \* the legacy keys a shim update has migrated so far
    mode,       \* the journal mode of the database file
    proc        \* the calls in flight: for each task, where its call stands

vars == <<now, sessions, secondary, last, savedRun, track, migrated, mode, proc>>

\* A call record: the operation, its key argument, and what it returned (res,
\* the key rkey of save and update, the data rdata of load, the count n of
\* clean_database); gone is the number of rows the call took out of the table.
\* data and ttl are the state and ttl arguments of update and update_ttl, and
\* stale tells that the call met a stored row of its id that had expired; run
\* counts the clean_database calls made in a row up to this one (at most 2).
Call(op, key, out) ==
    [op |-> op, key |-> key, res |-> out.res, rkey |-> out.rkey,
     rdata |-> out.rdata, n |-> 0,
     gone |-> Cardinality(sessions) - Cardinality(sessions \cap out.tbl),
     data |-> NoData, ttl |-> 0, stale |-> FALSE, run |-> 0]

NoCall == [op |-> "none", key |-> NoKey, res |-> "ok", rkey |-> NoKey,
           rdata |-> NoData, n |-> 0, gone |-> 0, data |-> NoData, ttl |-> 0,
           stale |-> FALSE, run |-> 0]
NoTrack == [set |-> FALSE, key |-> NoKey, from |-> NoKey, data |-> NoData,
            at |-> 0, until |-> 0]

\* Calls run as tasks on one connection pool; each task makes one call at a
\* time.
Tasks == {1, 2}

\* The journal modes of a database file: the rollback journal and the
\* write-ahead log.
JournalModes == {"delete", "wal"}

\* A task between calls.  Of a call in flight: pc is the step it is at, op, key,
\* m, ttl its operation and arguments, found the rows its select returned,
\* pend the table its open write will leave when committed, touched whether
\* that write changed a row, stale whether another connection has committed a
\* change since its read.  res, rkey, rdata and n are what the call returns.
\* Notes for the record: raced tells that a migrating update and another one
\* on the same key had both passed the existence check when neither had
\* inserted yet, overdue that a load read a row that had expired, met that a
\* load began while a clean_database was in flight or the other way round, and
\* took is the number of rows the call's commit removed.
NoProc ==
    [pc |-> "idle", op |-> "none", key |-> NoKey, m |-> NoData, ttl |-> 0,
     found |-> {}, pend |-> {}, touched |-> FALSE, stale |-> FALSE,
     raced |-> FALSE, overdue |-> FALSE, met |-> FALSE, took |-> 0,
     res |-> "ok", rkey |-> NoKey, rdata |-> NoData, n |-> 0]

\* The key addresses a row that is stored although it has expired.
MeetsExpiredRow(raw) ==
    /\ UuidParses(raw)
    /\ \E row \in RowsWithId(sessions, UuidToString(UuidTryFrom(raw))) : Expired(row, now)

Init ==
    /\ now = 0
    /\ sessions = {}
    /\ secondary = {LegacyRecord(m) : m \in LegacyStates}
    /\ last = NoCall
    /\ savedRun = <<>>
    /\ track = NoTrack
    /\ migrated = {}
    /\ mode = "delete"
    /\ proc = [t \in Tasks |-> NoProc]

\* The clock advances.
Tick ==
    /\ now < MaxTime
    /\ now' = now + 1
    /\ UNCHANGED <<sessions, secondary, last, savedRun, track, migrated, mode, proc>>

\* A write to the session of key raw ends the tracking of that session.
TrackAfterWrite(raw) ==
    IF track.set /\ UuidParses(raw) /\ UuidToString(UuidTryFrom(raw)) = track.key
    THEN NoTrack ELSE track

\* What a call given key `from` that ran save(m, ttl) with outcome out at time
\* t2 leaves behind.
SaveEffects(out, from, m, ttl, t2) ==
    /\ sessions' = out.tbl
    /\ now' = t2
    /\ savedRun' = IF out.res = "ok" THEN Append(savedRun, out.rkey) ELSE savedRun
    /\ track' = IF out.res = "ok"
                THEN [set |-> TRUE, key |-> out.rkey, from |-> from, data |-> m,
                      at |-> t2, until |-> t2 + ttl]
                ELSE track

StoreSaveCall ==
    \E m \in StateInputs, ttl \in Ttls, r \in Randoms, d \in 0..1 :
        LET out == StoreSave(sessions, m, ttl, r, now, now + d)
        IN  /\ now + d <= MaxTime
            /\ Cardinality(sessions) < MaxRows
            /\ SaveEffects(out, NoKey, m, ttl, now + d)
            /\ last' = Call("save", NoKey, out)
            /\ UNCHANGED <<secondary, migrated, mode, proc>>

StoreLoadCall ==
    \E raw \in KeyInputs :
        LET out == StoreLoad(sessions, raw, now)
        IN  /\ sessions' = out.tbl
            /\ last' = Call("load", raw, out)
            /\ savedRun' = <<>>
            /\ UNCHANGED <<now, secondary, track, migrated, mode, proc>>

StoreUpdateCall ==
    \E raw \in KeyInputs, m \in StateInputs, ttl \in Ttls :
        LET out == StoreUpdate(sessions, raw, m, ttl, now)
        IN  /\ sessions' = out.tbl
            /\ last' = [Call("update", raw, out)
                        EXCEPT !.data = m, !.ttl = ttl, !.stale = MeetsExpiredRow(raw)]
            /\ savedRun' = <<>>
            /\ track' = TrackAfterWrite(raw)
            /\ UNCHANGED <<now, secondary, migrated, mode, proc>>

StoreUpdateTtlCall ==
    \E raw \in KeyInputs, ttl \in Ttls :
        LET out == StoreUpdateTtl(sessions, raw, ttl, now)
        IN  /\ sessions' = out.tbl
            /\ last' = [Call("update_ttl", raw, out)
                        EXCEPT !.ttl = ttl, !.stale = MeetsExpiredRow(raw)]
            /\ savedRun' = <<>>
            /\ track' = TrackAfterWrite(raw)
            /\ UNCHANGED <<now, secondary, migrated, mode, proc>>

StoreDeleteCall ==
    \E raw \in KeyInputs :
        LET out == StoreDelete(sessions, raw)
        IN  /\ sessions' = out.tbl
            /\ last' = Call("delete", raw, out)
            /\ savedRun' = <<>>
            /\ track' = TrackAfterWrite(raw)
            /\ UNCHANGED <<now, secondary, migrated, mode, proc>>

CleanDatabaseCall ==
    LET out == CleanDatabase(sessions, now)
    IN  /\ sessions' = out.tbl
        /\ last' = [Call("clean_database", NoKey,
                         Outcome(out.tbl, out.res, NoKey, NoData))
                    EXCEPT !.n = out.count,
                           !.run = IF last.op = "clean_database" THEN 2 ELSE 1]
        /\ savedRun' = <<>>
        /\ UNCHANGED <<now, secondary, track, migrated, mode, proc>>

ShimSaveCall ==
    \E m \in StateInputs, ttl \in Ttls, r \in Randoms, d \in 0..1 :
        LET out == ShimSave(sessions, m, ttl, r, now, now + d)
        IN  /\ now + d <= MaxTime
            /\ Cardinality(sessions) < MaxRows
            /\ SaveEffects(out, NoKey, m, ttl, now + d)
            /\ last' = Call("save", NoKey, out)
            /\ UNCHANGED <<secondary, migrated, mode, proc>>

ShimLoadCall ==
    \E raw \in KeyInputs :
        LET out == ShimLoad(sessions, secondary, raw, now)
        IN  /\ sessions' = out.tbl
            /\ last' = Call("load", raw, out)
            /\ savedRun' = <<>>
            /\ UNCHANGED <<now, secondary, track, migrated, mode, proc>>

\* update reads the clock a second time, and draws a random number, only when
\* it saves a new session.
ShimUpdateCall ==
    \E raw \in KeyInputs, m \in StateInputs, ttl \in Ttls :
        IF ~StoreSessionKeyParses(raw) /\ SecondaryLoad(secondary, raw).res = "some"
        THEN \E r \in Randoms, d \in 0..1 :
                LET out == ShimUpdate(sessions, secondary, raw, m, ttl, r, now, now + d)
                IN  /\ now + d <= MaxTime
                    /\ Cardinality(sessions) < MaxRows
                    /\ SaveEffects(out, raw, m, ttl, now + d)
                    /\ last' = Call("update", raw, out)
                    /\ migrated' = IF out.res = "ok" THEN migrated \cup {raw}
                                   ELSE migrated
                    /\ UNCHANGED <<secondary, mode, proc>>
        ELSE LET out == ShimUpdate(sessions, secondary, raw, m, ttl, 0, now, now)
             IN  /\ sessions' = out.tbl
                 /\ last' = Call("update", raw, out)
                 /\ savedRun' = <<>>
                 /\ track' = TrackAfterWrite(raw)
                 /\ UNCHANGED <<now, secondary, migrated, mode, proc>>

ShimUpdateTtlCall ==
    \E raw \in KeyInputs, ttl \in Ttls :
        LET out == ShimUpdateTtl(sessions, raw, ttl, now)
        IN  /\ sessions' = out.tbl
            /\ last' = Call("update_ttl", raw, out)
            /\ savedRun' = <<>>
            /\ track' = TrackAfterWrite(raw)
            /\ UNCHANGED <<now, secondary, migrated, mode, proc>>

ShimDeleteCall ==
    \E raw \in KeyInputs :
        LET out == ShimDelete(sessions, raw)
        IN  /\ sessions' = out.tbl
            /\ last' = Call("delete", raw, out)
            /\ savedRun' = <<>>
            /\ track' = TrackAfterWrite(raw)
            /\ UNCHANGED <<now, secondary, migrated, mode, proc>>

\* The primary store called directly.
Next ==
    \/ Tick
    \/ StoreSaveCall
    \/ StoreLoadCall
    \/ StoreUpdateCall
    \/ StoreUpdateTtlCall
    \/ StoreDeleteCall
    \/ CleanDatabaseCall

Spec == Init /\ [][Next]_vars

\* Both stores behind the shim, which owns them; the sweep still runs on the
\* primary store.
ShimNext ==
    \/ Tick
    \/ ShimSaveCall
    \/ ShimLoadCall
    \/ ShimUpdateCall
    \/ ShimUpdateTtlCall
    \/ ShimDeleteCall
    \/ CleanDatabaseCall

ShimSpec == Init /\ [][ShimNext]_vars

\* ----------------------------------------------- calls running concurrently
\* Each call below is cut at its await points into the statements it sends to
\* the database.  SQLite lets many connections read and one write: a write
\* statement takes the write lock, which its connection holds until its
\* transaction ends (a statement sent to the pool outside a transaction is a
\* transaction of its own).

\* Task t's connection holds the write lock.
HoldsWrite(t) ==
    proc[t].pc \in {"stmt_commit", "load_commit", "clean_changes", "clean_commit"}

WriterElsewhere(t) == \E u \in Tasks \ {t} : HoldsWrite(u)

\* Another connection is inside a transaction that has read and not written.
ReaderElsewhere(t) == \E u \in Tasks \ {t} : proc[u].pc = "load_check"

\* A commit that changed nothing has nothing to write.  With a rollback journal
\* a commit of changes waits until no other connection reads; with a
\* write-ahead log it never waits.
CanCommit(t) == ~proc[t].touched \/ mode = "wal" \/ ~ReaderElsewhere(t)

\* The calls in flight once task t's commit has taken effect and left t's call
\* as rec: the read of every other open transaction is now out of date.
AfterCommit(t, rec) ==
    [u \in Tasks |->
        IF u = t THEN rec
        ELSE IF proc[t].touched /\ proc[u].pc = "load_check"
             THEN [proc[u] EXCEPT !.stale = TRUE]
             ELSE proc[u]]

\* The delete sent to the pool, outside load's transaction: never refused.
LoadDeleteNeverBusy(journal, stale, writerElsewhere) == FALSE

\* A transaction that has read is refused its first write ("database is
\* locked", at once, whatever the busy timeout) when another connection holds
\* the write lock or, with a write-ahead log, has committed since the read.
LoadDeleteBusy(journal, stale, writerElsewhere) ==
    writerElsewhere \/ (journal = "wal" /\ stale)

\* The keys the concurrent callers pass: the keys save issues and the keys of
\* the legacy sessions; and the state they write.
ConcKeys == IssuedKeys \cup {CookieKey(m) : m \in LegacyStates}
ConcStates == {m \in StateInputs : DOMAIN m = Names}

ConcInit ==
    /\ now = 0
    /\ sessions = {}
    /\ secondary = {LegacyRecord(m) : m \in LegacyStates}
    /\ last = NoCall
    /\ savedRun = <<>>
    /\ track = NoTrack
    /\ migrated = {}
    /\ mode \in JournalModes
    /\ proc = [t \in Tasks |-> NoProc]

\* What no step of a concurrent call changes.
ConcFrame == UNCHANGED <<secondary, last, savedRun, track, migrated, mode>>

\* shim.update, up to its statement: a key of the primary store goes to
\* primary.update; any other key must load from the secondary store before
\* primary.save is called.
ShimUpdateBegin(t) ==
    /\ proc[t].pc = "idle"
    /\ \E raw \in ConcKeys, m \in ConcStates, ttl \in Ttls :
          LET c == [NoProc EXCEPT !.key = raw, !.m = m, !.ttl = ttl]
              passed == ~StoreSessionKeyParses(raw)
                        /\ SecondaryLoad(secondary, raw).res = "some"
              racing(u) == /\ passed
                           /\ u # t
                           /\ proc[u].op = "shim_update" /\ proc[u].pc = "stmt"
                           /\ proc[u].key = raw
          IN  proc' = [u \in Tasks |->
                  IF u # t
                  THEN [proc[u] EXCEPT !.raced = proc[u].raced \/ racing(u)]
                  ELSE IF StoreSessionKeyParses(raw)
                       THEN [c EXCEPT !.op = "update", !.pc = "stmt"]
                       ELSE IF passed
                            THEN [c EXCEPT !.op = "shim_update", !.pc = "stmt",
                                           !.raced = \E v \in Tasks : racing(v)]
                            ELSE [c EXCEPT !.op = "shim_update", !.pc = "done",
                                           !.res = "err"]]
    /\ UNCHANGED <<now, sessions>>
    /\ ConcFrame

\* shim.update_ttl, up to its statement.
ShimUpdateTtlBegin(t) ==
    /\ proc[t].pc = "idle"
    /\ \E raw \in ConcKeys, ttl \in Ttls :
          LET c == [NoProc EXCEPT !.op = "update_ttl", !.key = raw, !.ttl = ttl]
          IN  proc' = [proc EXCEPT ![t] =
                  IF StoreSessionKeyParses(raw)
                  THEN [c EXCEPT !.pc = "stmt"]
                  ELSE [c EXCEPT !.pc = "done"]]
    /\ UNCHANGED <<now, sessions>>
    /\ ConcFrame

\* primary.save, update or update_ttl reads the clock (save draws random() as
\* well) and its statement runs; the statement waits while another connection
\* holds the write lock.
StmtExec(t) ==
    /\ proc[t].pc = "stmt"
    /\ ~WriterElsewhere(t)
    /\ \E r \in (IF proc[t].op = "shim_update" THEN Randoms ELSE {0}) :
          LET c == proc[t]
              out == CASE c.op = "shim_update" ->
                              StoreSave(sessions, c.m, c.ttl, r, now, now)
                       [] c.op = "update" ->
                              StoreUpdate(sessions, c.key, c.m, c.ttl, now)
                       [] OTHER ->
                              StoreUpdateTtl(sessions, c.key, c.ttl, now)
              touched == IF c.op = "shim_update" THEN TRUE
                         ELSE RowsWithId(sessions, UuidToString(UuidTryFrom(c.key))) # {}
          IN  proc' = [proc EXCEPT ![t] =
                  IF out.res = "err"
                  THEN [c EXCEPT !.pc = "done", !.res = "err"]
                  ELSE [c EXCEPT !.pc = "stmt_commit", !.pend = out.tbl,
                                 !.touched = touched,
                                 !.res = out.res, !.rkey = out.rkey]]
    /\ UNCHANGED <<now, sessions>>
    /\ ConcFrame

\* The statement's own transaction commits and the call returns.
StmtCommit(t) ==
    /\ proc[t].pc = "stmt_commit"
    /\ CanCommit(t)
    /\ sessions' = proc[t].pend
    /\ proc' = AfterCommit(t, [proc[t] EXCEPT !.pc = "done", !.pend = {},
                                              !.touched = FALSE])
    /\ UNCHANGED now
    /\ ConcFrame

\* shim.load: a key of the primary store goes to primary.load, which begins a
\* transaction and selects the row of the id; any other key is loaded from the
\* secondary store.
ShimLoadBegin(t) ==
    /\ proc[t].pc = "idle"
    /\ \E raw \in ConcKeys :
          LET c == [NoProc EXCEPT !.op = "load", !.key = raw]
              got == SecondaryLoad(secondary, raw)
          IN  proc' = [proc EXCEPT ![t] =
                  IF StoreSessionKeyParses(raw)
                  THEN [c EXCEPT !.pc = "load_check",
                                 !.found = RowsWithId(sessions,
                                              UuidToString(UuidTryFrom(raw))),
                                 !.met = \E u \in Tasks \ {t} :
                                            proc[u].pc \in {"clean_changes",
                                                            "clean_commit"}]
                  ELSE [c EXCEPT !.pc = "done", !.res = got.res,
                                 !.rdata = got.rdata]]
    /\ UNCHANGED <<now, sessions>>
    /\ ConcFrame

\* primary.load after its select: it reads the clock; for an expired row it
\* sends the delete inside its transaction, and otherwise returns, which drops
\* the transaction.  overdue records that the row it read had expired.
LoadCheck(t) ==
    LET c == proc[t]
        out == StoreLoad(c.found, c.key, now)
    IN  /\ c.pc = "load_check"
        /\ proc' = [proc EXCEPT ![t] =
               IF out.tbl # c.found
               THEN IF LoadDeleteBusy(mode, c.stale, WriterElsewhere(t))
                    THEN [c EXCEPT !.pc = "done", !.res = "err", !.overdue = TRUE,
                                   !.found = {}, !.stale = FALSE]
                    ELSE [c EXCEPT !.pc = "load_commit", !.overdue = TRUE,
                                   !.pend = StoreDelete(sessions, c.key).tbl,
                                   !.touched = TRUE]
               ELSE [c EXCEPT !.pc = "done", !.res = out.res, !.rdata = out.rdata,
                              !.found = {}, !.stale = FALSE]]
        /\ UNCHANGED <<now, sessions>>
        /\ ConcFrame

\* primary.load commits its delete and returns None.
LoadCommit(t) ==
    /\ proc[t].pc = "load_commit"
    /\ CanCommit(t)
    /\ sessions' = proc[t].pend
    /\ proc' = AfterCommit(t, [proc[t] EXCEPT !.pc = "done", !.res = "none",
                                              !.pend = {}, !.found = {},
                                              !.touched = FALSE,
                                              !.took = Cardinality(sessions \ proc[t].pend)])
    /\ UNCHANGED now
    /\ ConcFrame

\* clean_database begins a transaction and runs its delete, which waits while
\* another connection holds the write lock.
CleanDelete(t) ==
    LET out == CleanDatabase(sessions, now)
    IN  /\ proc[t].pc = "idle"
        /\ ~WriterElsewhere(t)
        /\ proc' = [proc EXCEPT ![t] =
               [NoProc EXCEPT !.op = "clean_database", !.pc = "clean_changes",
                              !.met = \E u \in Tasks \ {t} :
                                         proc[u].pc \in {"load_check", "load_commit"},
                              !.pend = out.tbl,
                              !.touched = (out.tbl # sessions),
                              !.res = out.res, !.n = out.count]]
        /\ UNCHANGED <<now, sessions>>
        /\ ConcFrame

\* clean_database reads changes(); when that fails it returns the error, which
\* drops the transaction.
CleanChanges(t) ==
    /\ proc[t].pc = "clean_changes"
    /\ proc' = [proc EXCEPT ![t] =
           IF proc[t].res = "err"
           THEN [proc[t] EXCEPT !.pc = "done", !.pend = {}, !.touched = FALSE]
           ELSE [proc[t] EXCEPT !.pc = "clean_commit"]]
    /\ UNCHANGED <<now, sessions>>
    /\ ConcFrame

\* clean_database commits and returns the count.
CleanCommit(t) ==
    /\ proc[t].pc = "clean_commit"
    /\ CanCommit(t)
    /\ sessions' = proc[t].pend
    /\ proc' = AfterCommit(t, [proc[t] EXCEPT !.pc = "done", !.pend = {},
                                              !.touched = FALSE,
                                              !.took = Cardinality(sessions \ proc[t].pend)])
    /\ UNCHANGED now
    /\ ConcFrame

\* The caller takes the result; the task is free for its next call.
Return(t) ==
    /\ proc[t].pc = "done"
    /\ proc' = [proc EXCEPT ![t] = NoProc]
    /\ UNCHANGED <<now, sessions>>
    /\ ConcFrame

\* Calls made through the shim by concurrent tasks.
ConcNext ==
    \/ Tick
    \/ \E t \in Tasks : ShimUpdateBegin(t)
    \/ \E t \in Tasks : ShimUpdateTtlBegin(t)
    \/ \E t \in Tasks : StmtExec(t)
    \/ \E t \in Tasks : StmtCommit(t)
    \/ \E t \in Tasks : ShimLoadBegin(t)
    \/ \E t \in Tasks : LoadCheck(t)
    \/ \E t \in Tasks : LoadCommit(t)
    \/ \E t \in Tasks : CleanDelete(t)
    \/ \E t \in Tasks : CleanChanges(t)
    \/ \E t \in Tasks : CleanCommit(t)
    \/ \E t \in Tasks : Return(t)

ConcSpec == ConcInit /\ [][ConcNext]_vars

\* ------------------------------------------------------------ call steps
\* A step that only advances the clock.
Ticked == now' # now /\ UNCHANGED <<sessions, secondary, last, savedRun, track, migrated, mode, proc>>

\* A step that is a call of operation op (last' then describes that call).
Called(op) == ~Ticked /\ last'.op = op

\* The id column value a key text addresses.
IdOf(raw) == UuidToString(UuidTryFrom(raw))

\* =================================================================== claims

\* C1: a shim update with a key that is not of the primary format and has no
\* record in the legacy store fails, and leaves the primary store as it was:
\* no session is made up.
C1_MissingLegacyUpdateFails ==
    [][(/\ Called("update")
        /\ ~StoreSessionKeyParses(last'.key)
        /\ ~\E rec \in secondary : rec.key = last'.key)
       => (last'.res = "err" /\ sessions' = sessions)]_vars

\* C1's case: an update with a decodable legacy key without a record has failed
\* while the primary store held a session.
C1_Witness ==
    /\ last.op = "update"
    /\ CookieDecodes(last.key) /\ ~StoreSessionKeyParses(last.key)
    /\ ~\E rec \in secondary : rec.key = last.key
    /\ last.res = "err"
    /\ sessions # {}

\* C2: a shim update with a legacy key whose record exists returns a new key,
\* different from the one given and of the primary format, unless the insert
\* itself is refused by the store; and a load of the new key before the end of
\* its ttl returns the state the caller passed, not the legacy store's.
C2_MigrationGate ==
    [][/\ (/\ Called("update")
           /\ ~StoreSessionKeyParses(last'.key)
           /\ \E rec \in secondary : rec.key = last'.key)
          => \/ /\ last'.res = "ok"
                /\ last'.rkey # last'.key
                /\ track'.set /\ track'.key = last'.rkey /\ track'.from = last'.key
                /\ \E row \in sessions' \ sessions : row.id = last'.rkey
             \/ /\ last'.res = "err"
                /\ sessions' = sessions
                /\ \E r \in Randoms : ~PrimaryKeyFree(sessions, UuidToString(Uuid(Millis(now), r)))
       /\ (/\ Called("load")
           /\ track.set /\ track.from # NoKey
           /\ last'.key = track.key
           /\ now' < track.until)
          => (last'.res = "some" /\ last'.rdata = track.data)]_vars

\* C2's case: the session of a legacy key was migrated and then loaded by its
\* new key, and the load returned the caller's state, which is not the legacy
\* store's.
C2_Witness ==
    /\ last.op = "load" /\ last.res = "some"
    /\ track.set /\ last.key = track.key
    /\ \E rec \in secondary : rec.key = track.from /\ rec.data # last.rdata
    /\ last.rdata = track.data
    /\ track.key # track.from

\* C3: a shim load with a key that is not of the primary format returns what
\* the legacy store holds for it and leaves the primary store as it was,
\* however often it is called.
C3_LoadDoesNotMigrate ==
    [][(Called("load") /\ ~StoreSessionKeyParses(last'.key))
       => /\ sessions' = sessions
          /\ last'.gone = 0
          /\ \A rec \in secondary :
                rec.key = last'.key => (last'.res = "some" /\ last'.rdata = rec.data)
          /\ (~\E rec \in secondary : rec.key = last'.key) => last'.res # "some"]_vars

\* C3's case: a legacy session has been loaded through the shim, and the primary
\* store holds sessions, none of them with the legacy session's state.
C3_Witness ==
    /\ last.op = "load" /\ last.res = "some"
    /\ \E rec \in secondary : rec.key = last.key /\ rec.data = last.rdata
    /\ sessions # {}
    /\ \A row \in sessions : FromValue(row.data) # last.rdata

\* C4: shim update_ttl and shim delete with a key that is not of the primary
\* format report success and change neither store; so the record a migration
\* made stays as it is.
C4_LegacyTtlAndDeleteAreNoOps ==
    [][((Called("update_ttl") \/ Called("delete")) /\ ~StoreSessionKeyParses(last'.key))
       => /\ last'.res = "ok"
          /\ sessions' = sessions
          /\ secondary' = secondary
          /\ track' = track
          /\ \A k \in KeyInputs :
                LET before == ShimLoad(sessions, secondary, k, now)
                    after == ShimLoad(sessions', secondary', k, now')
                IN  before.res = after.res /\ before.rdata = after.rdata]_vars

\* C4's case: delete or update_ttl was called with the legacy key of a migrated
\* session, and the migrated record is in the primary store with the migrated
\* data.
C4_Witness ==
    /\ last.op \in {"update_ttl", "delete"} /\ last.res = "ok"
    /\ track.set /\ track.from = last.key /\ ~StoreSessionKeyParses(last.key)
    /\ \E row \in sessions :
          row.id = track.key /\ row.data = ToValue(track.data) /\ row.expires = track.until

\* C5: every key a successful shim save or update returns parses under the
\* primary store's key codec, and no step adds a record to the legacy store.
C5_ReturnedKeysArePrimary ==
    [][/\ ((Called("save") \/ Called("update")) /\ last'.res = "ok")
          => (StoreSessionKeyParses(last'.rkey) /\ UuidParses(last'.rkey))
       /\ secondary' \subseteq secondary]_vars

\* C5's case: an update with a legacy key has succeeded and returned a key of
\* the primary format.
C5_Witness ==
    /\ last.op = "update" /\ last.res = "ok"
    /\ ~StoreSessionKeyParses(last.key)
    /\ StoreSessionKeyParses(last.rkey)
    /\ \E row \in sessions : row.id = last.rkey

Distinct(seq) == \A i, j \in 1..Len(seq) : i # j => seq[i] # seq[j]

\* C6: the keys returned by the successful saves of a run of save calls are
\* pairwise distinct, a successful save returns the id of a row that did not
\* exist before and exists after, and the table never holds two rows of one id.
C6_SavedKeysDistinct ==
    [][/\ Distinct(savedRun')
       /\ \A r1, r2 \in sessions' : r1.id = r2.id => r1 = r2
       /\ (Called("save") /\ last'.res = "ok")
          => /\ RowsWithId(sessions, last'.rkey) = {}
             /\ Cardinality(RowsWithId(sessions', last'.rkey)) = 1]_vars

\* C6's case: two saves in a row within one millisecond have both succeeded;
\* their keys differ and each has its row.
C6_Witness ==
    /\ last.op = "save" /\ last.res = "ok"
    /\ Len(savedRun) = 2 /\ savedRun[1] # savedRun[2]
    /\ UuidTryFrom(savedRun[1]).t = UuidTryFrom(savedRun[2]).t
    /\ \A i \in 1..2 : RowsWithId(sessions, savedRun[i]) # {}

\* C7: a load of the key a save returned, made before the ttl of the save has
\* run out and with no update, update_ttl or delete of that key in between,
\* returns exactly the state that was saved.
C7_RoundTrip ==
    [][(/\ Called("load")
        /\ track.set
        /\ last'.key = track.key
        /\ now' < track.until)
       => (last'.res = "some" /\ last'.rdata = track.data)]_vars

\* C7's case: a state of two entries was saved, other calls were made, and a
\* load of its key before the end of the ttl returned it.
C7_Witness ==
    /\ last.op = "load" /\ last.res = "some"
    /\ track.set /\ last.key = track.key
    /\ now < track.until
    /\ last.rdata = track.data
    /\ DOMAIN last.rdata = Names
    /\ Cardinality(sessions) = 2

\* C8: a load that finds a row whose expires is strictly before the time of the
\* read returns None and removes that row, and nothing else, from the table; a
\* load that finds a row that is not expired returns its data and leaves the
\* table as it is.
C8_LazyExpiry ==
    [][(Called("load") /\ UuidParses(last'.key))
       => \A row \in RowsWithId(sessions, IdOf(last'.key)) :
             IF row.expires < now'
             THEN /\ last'.res = "none"
                  /\ sessions' = sessions \ {row}
                  /\ last'.gone = 1
             ELSE /\ last'.res = "some"
                  /\ last'.rdata = FromValue(row.data)
                  /\ sessions' = sessions]_vars

\* C8's case: a saved session was loaded after its expiry; the load returned
\* None and took the row out, while the row of another session stayed.
C8_Witness ==
    /\ last.op = "load" /\ last.res = "none" /\ last.gone = 1
    /\ track.set /\ last.key = track.key
    /\ track.until < now
    /\ RowsWithId(sessions, track.key) = {}
    /\ sessions # {}

\* C9 as stated: after a save with ttl = 0, a load of the returned key returns
\* None at every clock reading, the instant of the save included.
C9_TtlZeroAlwaysNone ==
    [][(/\ Called("load")
        /\ track.set /\ track.until = track.at
        /\ last'.key = track.key)
       => last'.res = "none"]_vars

\* C9, amended: after a save with ttl = 0, a load of the returned key returns
\* None when the clock reads later than it did at the save; a load at the very
\* instant of the save still returns the saved state.
C9_TtlZeroNoneOnceClockMoved ==
    [][(/\ Called("load")
        /\ track.set /\ track.until = track.at
        /\ last'.key = track.key)
       => /\ now' > track.at
             => (last'.res = "none" /\ RowsWithId(sessions', track.key) = {})
          /\ now' = track.at
             => (last'.res = "some" /\ last'.rdata = track.data /\ sessions' = sessions)]_vars

\* C9's case: a session saved with ttl = 0 was loaded at a later clock reading,
\* and the load returned None and removed the row.
C9_Witness ==
    /\ last.op = "load" /\ last.res = "none" /\ last.gone = 1
    /\ track.set /\ track.until = track.at
    /\ last.key = track.key
    /\ now > track.at

\* C10: delete of a decodable key succeeds whether or not a row has that id;
\* after it a load of the key returns None at any time; the rows of all other
\* ids are untouched, and a load of any other id returns what it returned before.
C10_Delete ==
    [][(Called("delete") /\ UuidParses(last'.key))
       => /\ last'.res = "ok"
          /\ sessions' = {row \in sessions : row.id # IdOf(last'.key)}
          /\ \A t \in now'..MaxTime : StoreLoad(sessions', last'.key, t).res = "none"
          /\ \A k2 \in KeyInputs :
                (UuidParses(k2) /\ IdOf(k2) # IdOf(last'.key))
                => LET before == StoreLoad(sessions, k2, now)
                       after == StoreLoad(sessions', k2, now')
                   IN  before.res = after.res /\ before.rdata = after.rdata]_vars

\* C10's case: a delete has removed the row of its key while the row of another
\* key, which still loads, stayed.
C10_Witness ==
    /\ last.op = "delete" /\ last.res = "ok" /\ last.gone = 1
    /\ RowsWithId(sessions, IdOf(last.key)) = {}
    /\ \E row \in sessions : StoreLoad(sessions, row.id, now).res = "some"

\* C11: clean_database removes exactly the rows whose expires is strictly
\* before the time of the call, all of them and no other row, in one step; it
\* succeeds in every table state, the empty table included, and returns the
\* number of rows it removed.
C11_SweepRemovesExpired ==
    [][Called("clean_database")
       => /\ last'.res = "ok"
          /\ sessions' = {row \in sessions : ~(row.expires < now)}
          /\ last'.n = Cardinality(sessions \ sessions')]_vars

\* C12: of two clean_database calls made in a row, with no write in between,
\* the second succeeds, returns 0 and leaves the table as it is.
C12_SecondSweepReturnsZero ==
    [][(Called("clean_database") /\ last'.run = 2)
       => /\ last'.res = "ok"
          /\ last'.n = 0
          /\ sessions' = sessions]_vars

\* C13 as stated: every stored record has expires strictly after created.
C13_ExpiresAfterCreated == \A row \in sessions : row.expires > row.created

\* C13, amended: every stored record has expires at or after created; the
\* record a save wrote has created = now and expires = now + ttl, the record an
\* update or update_ttl wrote has expires = now + ttl with created not after
\* now, so expires is strictly after created whenever the ttl is positive.
C13_ExpiresNotBeforeCreated ==
    [][/\ \A row \in sessions' : row.expires >= row.created
       /\ (Called("save") /\ last'.res = "ok")
          => \A row \in RowsWithId(sessions', last'.rkey) :
                /\ row.created = now'
                /\ row.expires = track'.until
                /\ track'.until > track'.at => row.expires > row.created
                /\ track'.until = track'.at => row.expires = row.created
       /\ ((Called("update") \/ Called("update_ttl")) /\ UuidParses(last'.key))
          => \A row \in RowsWithId(sessions', IdOf(last'.key)) :
                /\ row.expires = now' + last'.ttl
                /\ row.created <= now'
                /\ last'.ttl > 0 => row.expires > row.created]_vars

\* C13's case: a record written by update_ttl with ttl = 0 at the clock reading
\* of its creation has expires = created, next to a record renewed later with
\* expires after created.
C13_Witness ==
    /\ last.op = "update_ttl" /\ last.ttl = 0 /\ UuidParses(last.key)
    /\ \E row \in RowsWithId(sessions, IdOf(last.key)) : row.expires = row.created
    /\ \E row \in sessions : row.created < now /\ row.expires > row.created

\* C14: update with a decodable key succeeds and returns the key it was given,
\* unchanged.  When no row has the id, the table stays as it is and a load of
\* the key returns None from then on; when a row has it, that row keeps its id
\* and created and its data becomes the state passed in.
C14_Update ==
    [][(Called("update") /\ UuidParses(last'.key))
       => /\ last'.res = "ok"
          /\ last'.rkey = last'.key
          /\ LET id == IdOf(last'.key)
             IN  IF RowsWithId(sessions, id) = {}
                 THEN /\ sessions' = sessions
                      /\ \A t \in now'..MaxTime :
                            StoreLoad(sessions', last'.key, t).res = "none"
                 ELSE /\ Cardinality(RowsWithId(sessions', id)) = 1
                      /\ \A row \in RowsWithId(sessions, id) :
                            \E new \in RowsWithId(sessions', id) :
                               /\ new.created = row.created
                               /\ FromValueOk(new.data)
                               /\ FromValue(new.data) = last'.data]_vars

\* C14's case: an update given a key text that save never wrote, with the
\* fields in the other order, returned that very text, and the row of its id,
\* created earlier, now holds the state passed in, which is not the one saved.
C14_Witness ==
    /\ last.op = "update" /\ last.res = "ok"
    /\ last.key \in AliasKeys /\ last.rkey = last.key
    /\ last.rkey # UuidToSessionKey(UuidTryFrom(last.key))
    /\ \E row \in RowsWithId(sessions, IdOf(last.key)) :
          /\ row.created < now
          /\ row.data = ToValue(last.data)
    /\ DOMAIN last.data = Names

\* C15: update_ttl with a decodable key succeeds; the row of that id keeps its
\* id, created and data and gets expires = now + ttl; every other row is as it
\* was, and no row is added or removed.
C15_UpdateTtlFrame ==
    [][(Called("update_ttl") /\ UuidParses(last'.key))
       => /\ last'.res = "ok"
          /\ Cardinality(sessions') = Cardinality(sessions)
          /\ \A row \in sessions :
                IF row.id = IdOf(last'.key)
                THEN \E new \in sessions' :
                        /\ new.id = row.id
                        /\ new.created = row.created
                        /\ new.data = row.data
                        /\ new.expires = now' + last'.ttl
                ELSE row \in sessions']_vars

\* C15's case: update_ttl has moved the expires of one row, created earlier,
\* while another row, already expired, is still stored as it was.
C15_Witness ==
    /\ last.op = "update_ttl" /\ last.res = "ok" /\ UuidParses(last.key)
    /\ \E row \in RowsWithId(sessions, IdOf(last.key)) :
          /\ row.created < now
          /\ row.expires = now + last.ttl
          /\ row.expires # row.created
    /\ \E row \in sessions : row.id # IdOf(last.key) /\ row.expires < now

\* C16: once a shim update has migrated a legacy key, no later shim load,
\* update, update_ttl or delete given that key creates, changes or removes a
\* record of the primary store.
C16_MigratedKeyInert ==
    [][(/\ ~Ticked
        /\ last'.op \in {"load", "update", "update_ttl", "delete"}
        /\ last'.key \in migrated)
       => sessions' = sessions]_vars

\* C18: a record that has expired but is still stored stays absent: when update
\* or update_ttl is called on its id, the load of that id that follows still
\* returns None.
C18_ExpiredStaysAbsent ==
    [][(/\ Called("load")
        /\ last.op \in {"update", "update_ttl"} /\ last.stale
        /\ UuidParses(last'.key)
        /\ IdOf(last'.key) = IdOf(last.key))
       => last'.res = "none"]_vars

\* C17: two concurrent shim updates on one legacy key can both pass the
\* existence check before either inserts; whenever they have, and both then
\* succeed, each caller has a key of its own and the primary store holds a
\* record for each: two records for the one legacy session.
C17_RacingMigrationsDiverge ==
    \A t, u \in Tasks :
       (/\ t # u
        /\ proc[t].pc = "done" /\ proc[u].pc = "done"
        /\ proc[t].op = "shim_update" /\ proc[u].op = "shim_update"
        /\ proc[t].key = proc[u].key
        /\ proc[t].raced /\ proc[u].raced
        /\ proc[t].res = "ok" /\ proc[u].res = "ok")
       => /\ proc[t].rkey # proc[u].rkey
          /\ StoreSessionKeyParses(proc[t].rkey)
          /\ RowsWithId(sessions, proc[t].rkey) # {}
          /\ RowsWithId(sessions, proc[u].rkey) # {}
          /\ RowsWithId(sessions, proc[t].rkey) # RowsWithId(sessions, proc[u].rkey)

\* C17's case: both updates of one legacy key passed the check before either
\* inserted, both succeeded with different new keys, and both records exist.
C17_Witness ==
    /\ \A t \in Tasks :
          /\ proc[t].pc = "done" /\ proc[t].op = "shim_update" /\ proc[t].res = "ok"
          /\ \E rec \in secondary : rec.key = proc[t].key
          /\ RowsWithId(sessions, proc[t].rkey) # {}
    /\ proc[1].key = proc[2].key
    /\ proc[1].rkey # proc[2].rkey
    /\ \A t \in Tasks : proc[t].raced
    /\ Cardinality(sessions) = 2

\* C19: when a load of key k that read an expired row and a clean_database
\* ran concurrently and both have finished, the load has returned None, the
\* row of k is gone, it was removed exactly once, and a successful sweep
\* returned the number of rows it removed itself.
C19_LoadAndSweepAtomic ==
    \A t, u \in Tasks :
       (/\ t # u
        /\ proc[t].pc = "done" /\ proc[t].op = "load" /\ proc[t].overdue
        /\ proc[u].pc = "done" /\ proc[u].op = "clean_database"
        /\ (proc[t].met \/ proc[u].met))
       => /\ proc[t].res = "none"
          /\ RowsWithId(sessions, IdOf(proc[t].key)) = {}
          /\ proc[t].took + proc[u].took = 1
          /\ proc[u].res = "ok" => proc[u].n = proc[u].took

\* C20: the commit of load's lazy-expiry delete removes only rows that are as
\* load read them, so unchanged by any renewal since, and whose expires is
\* before the time of the commit.
C20_RenewalNotLost ==
    [][\A t \in Tasks :
          (proc[t].pc = "load_commit" /\ proc'[t].pc = "done")
          => \A row \in sessions \ sessions' :
                /\ row \in proc[t].found
                /\ row.expires < now']_vars

\* C20's case: a load read an expired row, an update or update_ttl of the same
\* id then renewed it, and the load, refused its delete, has failed; the
\* renewed row is stored and has not expired.
C20_Witness ==
    \E t, u \in Tasks :
       /\ t # u
       /\ proc[t].pc = "done" /\ proc[t].op = "load"
       /\ proc[t].overdue /\ proc[t].res = "err"
       /\ proc[u].pc = "done" /\ proc[u].op \in {"update", "update_ttl"}
       /\ proc[u].res = "ok"
       /\ IdOf(proc[u].key) = IdOf(proc[t].key)
       /\ \E row \in RowsWithId(sessions, IdOf(proc[t].key)) : row.expires > now

====
